---- MODULE Spec2Model ----
(***************************************************************************)
(* Model of the new-years-visual choreography engine: the scene            *)
(* orchestrator (TemporalCollapseScene), its transient-effect subsystems   *)
(* (ShockwaveSystem, FireworkSystem, BurstSystem) and the countdown state  *)
(* machine (useCountdown).                                                 *)
(*                                                                         *)
(* Scene time is counted in units of 0.05 s (TimeUnit): 0.15 s = 3,        *)
(* 2.0 s = 40.  Countdown time is counted in milliseconds.                 *)
(***************************************************************************)
EXTENDS Integers, Sequences, FiniteSets, TLC

\* ------------------------------------------------------------------ bounds
MaxTime == 60                \* horizon of the scene clock, in units of 0.05 s
MaxTriggers == 2             \* triggerClimax + triggerCelebration firings explored
MaxDisposeCalls == 2         \* dispose() calls explored
MaxFireworks == 2            \* fireworks the deferred callbacks may create
MaxBurstFireworks == 5       \* the same, where a whole initial burst is followed
MaxShakeDecays == 1          \* frames of shake decay told apart (this many or more)
MaxTicks == 2                \* ticks whose clock reads are followed
MaxSamples == 2              \* sampling ticks of the countdown explored
MaxEffectRuns == 2           \* runs of the useCountdown effect (mount + target changes)
MaxLayerTime == 112          \* horizon of the scene clock where the burst system is followed
MaxShakeTicks == 3           \* ticks after a trigger whose shake is followed

\* ------------------------------------------------------- program constants
Null == -1                   \* `null` of a `number | null` field

Phases == <<"dormant", "calm", "building", "intense", "final", "climax", "celebration">>
PhaseSet == {Phases[i] : i \in 1..Len(Phases)}

\* position of a phase in the order dormant < ... < celebration
PhaseRank(p) == CHOOSE i \in 1..Len(Phases) : Phases[i] = p

\* ShockwaveSystem.DEFAULT_DURATION = 2.0 s
DEFAULT_DURATION == 40

\* the five rings of ShockwaveSystem.triggerClimax: color, delay, maxRadius
ClimaxRings ==
  << [color |-> "white",   delay |-> 0,  maxRadius |-> 80],
     [color |-> "gold",    delay |-> 3,  maxRadius |-> 70],
     [color |-> "magenta", delay |-> 6,  maxRadius |-> 60],
     [color |-> "cyan",    delay |-> 9,  maxRadius |-> 50],
     [color |-> "gold",    delay |-> 12, maxRadius |-> 40] >>

\* the loop bound of the initial firework burst, and its stagger (200 ms)
InitialBurstCount == 5
InitialBurstDelay == 4

\* BurstSystem.createLayers: five layers, layer.delay = index * 0.1 s
BurstLayerCount == 5
BurstLayerDelay == 2
\* BurstSystem.FADE_DURATION = 5.0 s
FADE_DURATION == 100

\* sampled values of the random firework lifetime 2.5 + Math.random() s
FireworkLifetimes == {50, 69}
\* sampled values of the random spawn interval 0.3 + Math.random() * 0.4 s
FireworkIntervals == {6, 13}
\* sampled elapsed wall-clock time between two events
ClockSteps == {30, 60}
\* sampled scene time between two calls of the burst system: 0.2 s, 5.0 s
LayerSteps == {4, 100}

\* (progress in 1/1000, phase) pairs delivered to updateProgress: the pairs
\* the countdown hook and the debug override produce
ProgressInputs ==
  { <<0, "dormant">>, <<999, "final">>, <<1000, "climax">>, <<1001, "celebration">> }

VARIABLES
  now,                  \* clock.getElapsedTime(): scene time
  progress, phase,      \* TemporalCollapseScene.progress / .phase
  climaxStartTime, celebrationStartTime, lastFireworkTime,
  isDisposed,
  animationFrameId,     \* handle of the last requestAnimationFrame, or Null
  rafQueue,             \* handles of the frame requests the browser holds
  resizeListener,       \* window has the scene's resize listener
  canvasAttached,       \* renderer.domElement is a child of the container
  sceneChildren,        \* objects attached to the THREE.Scene
  disposedObjects,      \* objects whose geometry and material were disposed
  burstLayers,          \* BurstSystem.layers
  shockwaves,           \* ShockwaveSystem.shockwaves
  fireworks,            \* FireworkSystem.fireworks
  nextFirework,         \* number of fireworks created so far (object identity)
  timeouts,             \* due times of the pending setTimeout callbacks
  calls,                \* how often triggerClimax / triggerCelebration / dispose ran
  lastFrame,            \* what the last frame callback did: "ran" or "skipped"
  targetShakeIntensity, \* level (1/1000) and the number of times it was scaled by 0.98
  remaining, state, samples,  \* countdown: target - now, CountdownState, ticks
  targetDate, wallClock,  \* useCountdown's argument and Date.now(), ms since the mount
  mounted,              \* the component using useCountdown is mounted
  intervals,            \* the setInterval timers the browser holds
  effectRuns,           \* how often the effect of useCountdown has run
  clock,                \* THREE.Clock: running, oldTime, elapsedTime (ms)
  perfNow,              \* performance.now(), in ms
  tickDt, fovDt,        \* the delta of the last tick (ms): animate's dt, updateFOV's
  ticks,                \* ticks whose clock reads were followed
  mathCall,             \* a call of an easing function, smoothLerp or a tick's intensity
  burstBuffers,         \* per burst layer: position attribute, opacity, velocities, lifetimes
  shakeIntensity        \* TemporalCollapseScene.shakeIntensity, a double

sceneVars == << now, progress, phase, climaxStartTime, celebrationStartTime,
                lastFireworkTime, isDisposed, animationFrameId, rafQueue,
                resizeListener, canvasAttached, sceneChildren, disposedObjects,
                burstLayers, shockwaves, fireworks, nextFirework, timeouts,
                calls, lastFrame, targetShakeIntensity >>
countdownVars == << remaining, state, samples, targetDate, wallClock, mounted,
                    intervals, effectRuns >>
clockVars == << clock, perfNow, tickDt, fovDt, ticks >>
mathVars == << mathCall >>
effectVars == << burstBuffers, shakeIntensity >>
vars == << sceneVars, countdownVars, clockVars, mathVars, effectVars >>

\* ------------------------------------------------------------ scene objects
Obj(kind, id) == [kind |-> kind, id |-> id]
StarFieldObj == Obj("starField", 0)
TimeParticlesObj == Obj("timeParticles", 0)
FlashPlaneObj == Obj("flashPlane", 0)
AmbientLightObj == Obj("ambientLight", 0)
BurstLayerObj(i) == Obj("burstLayer", i)
RingObj(id) == Obj("ring", id)
FireworkObj(id) == Obj("firework", id)

\* the kinds of object that are render resources of a particle subsystem
SubsystemKinds == {"starField", "timeParticles", "burstLayer", "ring", "firework", "flashPlane"}
\* THREE.Mesh instances among them (rings and the flash plane)
MeshKinds == {"ring", "flashPlane"}

\* Array.prototype.splice(i, 1) on a 1-based sequence
Splice(s, i) == [k \in 1..(Len(s) - 1) |-> IF k < i THEN s[k] ELSE s[k + 1]]


\* --------------------------------------------------------- ShockwaveSystem
\* A system value is [list, children, disposed]: the system's active list,
\* the children of the THREE.Scene, the objects already disposed.
Sys(list, children, disposed) == [list |-> list, children |-> children, disposed |-> disposed]

\* ShockwaveSystem.add: a new ring mesh is attached and appended
ShockwaveAdd(sys, id, color, delay, maxRadius, currentTime) ==
  Sys(Append(sys.list, [id |-> id, startTime |-> currentTime + delay,
                        duration |-> DEFAULT_DURATION, maxRadius |-> maxRadius,
                        color |-> color, visible |-> TRUE]),
      sys.children \cup {RingObj(id)},
      sys.disposed)

RECURSIVE ShockwaveAddAll(_, _, _, _)
ShockwaveAddAll(sys, firstId, k, currentTime) ==
  IF k > Len(ClimaxRings) THEN sys
  ELSE CHOOSE result \in
         {ShockwaveAddAll(next, firstId, k + 1, currentTime) :
            next \in {ShockwaveAdd(sys, firstId + k - 1, ClimaxRings[k].color,
                                   ClimaxRings[k].delay, ClimaxRings[k].maxRadius,
                                   currentTime)}} : TRUE

\* ShockwaveSystem.triggerClimax: the five add() calls
ShockwaveTriggerClimax(sys, firstId, currentTime) ==
  ShockwaveAddAll(sys, firstId, 1, currentTime)

\* mutant: an expired ring is disposed and spliced but stays on the scene
ShockwaveStep_KeepsMesh(sys, i, time) ==
  LET shockwave == sys.list[i]
      elapsed == time - shockwave.startTime
  IN IF elapsed < 0
       THEN [sys EXCEPT !.list[i].visible = FALSE]
     ELSE IF elapsed > shockwave.duration
       THEN Sys(Splice(sys.list, i), sys.children,
                sys.disposed \cup {RingObj(shockwave.id)})
     ELSE [sys EXCEPT !.list[i].visible = TRUE]

\* mutant: an expired ring is removed and disposed but not spliced
ShockwaveStep_NoSplice(sys, i, time) ==
  LET shockwave == sys.list[i]
      elapsed == time - shockwave.startTime
  IN IF elapsed < 0
       THEN [sys EXCEPT !.list[i].visible = FALSE]
     ELSE IF elapsed > shockwave.duration
       THEN Sys(sys.list,
                sys.children \ {RingObj(shockwave.id)},
                sys.disposed \cup {RingObj(shockwave.id)})
     ELSE [sys EXCEPT !.list[i].visible = TRUE]

\* mutant: a ring that has not started yet is left as add() created it
ShockwaveStep_FutureShown(sys, i, time) ==
  LET shockwave == sys.list[i]
      elapsed == time - shockwave.startTime
  IN IF elapsed < 0
       THEN sys
     ELSE IF elapsed > shockwave.duration
       THEN Sys(Splice(sys.list, i),
                sys.children \ {RingObj(shockwave.id)},
                sys.disposed \cup {RingObj(shockwave.id)})
     ELSE [sys EXCEPT !.list[i].visible = TRUE]

\* one iteration of the loop of ShockwaveSystem.update, at index i
ShockwaveStep(sys, i, time) ==
  LET shockwave == sys.list[i]
      elapsed == time - shockwave.startTime
  IN IF elapsed < 0
       THEN [sys EXCEPT !.list[i].visible = FALSE]
     ELSE IF elapsed > shockwave.duration        \* t = elapsed / duration > 1
       THEN Sys(Splice(sys.list, i),
                sys.children \ {RingObj(shockwave.id)},
                sys.disposed \cup {RingObj(shockwave.id)})
     ELSE [sys EXCEPT !.list[i].visible = TRUE]

\* the loop of ShockwaveSystem.update: i runs from length - 1 down to 0
\* (the system after iteration i is bound as `next`, so it is computed once)
RECURSIVE ShockwaveLoop(_, _, _)
ShockwaveLoop(sys, i, time) ==
  IF i < 1 THEN sys
  ELSE CHOOSE result \in {ShockwaveLoop(next, i - 1, time) :
                            next \in {ShockwaveStep(sys, i, time)}} : TRUE

ShockwaveUpdate(sys, time) == ShockwaveLoop(sys, Len(sys.list), time)

\* mutant: the list is not emptied
ListDispose_KeepsList(sys, kind) ==
  LET objs == {Obj(kind, sys.list[i].id) : i \in 1..Len(sys.list)}
  IN Sys(sys.list, sys.children \ objs, sys.disposed \cup objs)

\* remove + dispose every element of a system's list, and empty the list
\* (ShockwaveSystem.dispose, FireworkSystem.dispose, BurstSystem.dispose)
ListDispose(sys, kind) ==
  LET objs == {Obj(kind, sys.list[i].id) : i \in 1..Len(sys.list)}
  IN Sys(<< >>, sys.children \ objs, sys.disposed \cup objs)

ShockwaveDispose(sys) == ListDispose(sys, "ring")

\* ----------------------------------------------------------- FireworkSystem
\* FireworkSystem.spawn: a new firework is attached and appended
FireworkSpawn(sys, id, currentTime, lifetime) ==
  Sys(Append(sys.list, [id |-> id, startTime |-> currentTime, lifetime |-> lifetime]),
      sys.children \cup {FireworkObj(id)},
      sys.disposed)

\* normalizedTime >= 1, where normalizedTime = elapsed / lifetime
FireworkExpired(firework, time) == time - firework.startTime >= firework.lifetime

\* mutant: the first loop stops at the first expired firework
RECURSIVE FireworkToRemove_FirstOnly(_, _, _)
FireworkToRemove_FirstOnly(list, i, time) ==
  IF i > Len(list) THEN << >>
  ELSE IF FireworkExpired(list[i], time)
         THEN << i >>
         ELSE FireworkToRemove_FirstOnly(list, i + 1, time)

\* first loop of FireworkSystem.update: the indices to remove, ascending
RECURSIVE FireworkToRemove(_, _, _)
FireworkToRemove(list, i, time) ==
  IF i > Len(list) THEN << >>
  ELSE IF FireworkExpired(list[i], time)
         THEN << i >> \o FireworkToRemove(list, i + 1, time)
         ELSE FireworkToRemove(list, i + 1, time)

\* second loop of FireworkSystem.update: k runs from toRemove.length - 1 down to 0
RECURSIVE FireworkRemoveLoop(_, _, _)
FireworkRemoveLoop(sys, toRemove, k) ==
  IF k < 1 THEN sys
  ELSE LET index == toRemove[k]
           firework == sys.list[index]
       IN CHOOSE result \in
            {FireworkRemoveLoop(next, toRemove, k - 1) :
               next \in {Sys(Splice(sys.list, index),
                             sys.children \ {FireworkObj(firework.id)},
                             sys.disposed \cup {FireworkObj(firework.id)})}} : TRUE

FireworkUpdate(sys, time) ==
  LET toRemove == FireworkToRemove(sys.list, 1, time)
  IN FireworkRemoveLoop(sys, toRemove, Len(toRemove))

FireworkDispose(sys) == ListDispose(sys, "firework")

\* -------------------------------------------------------------- BurstSystem
\* BurstSystem.createLayers: layer.delay = index * 0.1, startTime null, hidden
InitialBurstLayers ==
  [i \in 1..BurstLayerCount |->
     [id |-> i, startTime |-> Null, delay |-> (i - 1) * BurstLayerDelay, visible |-> FALSE]]

\* BurstSystem.trigger
BurstTrigger(layers, startTime) ==
  [i \in 1..Len(layers) |->
     [layers[i] EXCEPT !.startTime = startTime + layers[i].delay, !.visible = TRUE]]

\* BurstSystem.update: a started layer is hidden once its fade has completed
BurstUpdate(layers, time) ==
  [i \in 1..Len(layers) |->
     IF layers[i].startTime = Null \/ time - layers[i].startTime < 0
       THEN layers[i]
     ELSE IF time - layers[i].startTime >= FADE_DURATION
       THEN [layers[i] EXCEPT !.visible = FALSE]
     ELSE layers[i]]

BurstDispose(sys) == ListDispose(sys, "burstLayer")


\* --------------------------------------------------- TemporalCollapseScene
\* the objects the constructor attaches to the scene
InitialChildren ==
  {StarFieldObj, TimeParticlesObj, FlashPlaneObj, AmbientLightObj}
    \cup {BurstLayerObj(i) : i \in 1..BurstLayerCount}

\* the handle requestAnimationFrame returns: one not in use
NewHandle(queue) == CHOOSE h \in 1..(Cardinality(queue) + 1) : h \notin queue

\* setTimeout: callbacks run in order of due time, equal due times in
\* order of registration
RECURSIVE InsertTimer(_, _)
InsertTimer(queue, due) ==
  IF queue = << >> \/ due < Head(queue) THEN << due >> \o queue
  ELSE << Head(queue) >> \o InsertTimer(Tail(queue), due)

\* mutant: the loop stops one callback short
ScheduleBurst_OneShort(queue, i, time) ==
  InsertTimer(InsertTimer(InsertTimer(InsertTimer(queue, time),
                                      time + InitialBurstDelay),
                          time + 2 * InitialBurstDelay),
              time + 3 * InitialBurstDelay)

RECURSIVE ScheduleBurst(_, _, _)
ScheduleBurst(queue, i, time) ==
  IF i >= InitialBurstCount THEN queue
  ELSE ScheduleBurst(InsertTimer(queue, time + i * InitialBurstDelay), i + 1, time)

\* mutant: level-triggered, fires on every call that delivers climax
EntersClimax_Level(newPhase, previousPhase) == newPhase = "climax"
\* mutant: fires on leaving celebration as well as on entering it
EntersCelebration_AnyEdge(newPhase, previousPhase) ==
  (newPhase = "celebration") # (previousPhase = "celebration")

\* mutant: celebration is entered only from climax
EntersCelebration_FromClimax(newPhase, previousPhase) ==
  newPhase = "celebration" /\ previousPhase = "climax"

\* mutant: climax is entered only from final
EntersClimax_FromFinal(newPhase, previousPhase) ==
  newPhase = "climax" /\ previousPhase = "final"

\* the two transition tests of updateProgress
EntersClimax(newPhase, previousPhase) ==
  newPhase = "climax" /\ previousPhase # "climax"
EntersCelebration(newPhase, previousPhase) ==
  newPhase = "celebration" /\ previousPhase # "celebration"

\* mutants: the disposed flag is not checked
AnimateNeverReturnsEarly == FALSE
TimeoutAlwaysSpawns == TRUE

\* the disposed checks of animate and of the deferred spawn callback
AnimateReturnsEarly == isDisposed
TimeoutSpawns == ~isDisposed

Called(name) == [calls EXCEPT ![name] = @ + 1]

\* a targetShakeIntensity just assigned `level` (in 1/1000)
Shake(level) == [level |-> level, decays |-> 0]
\* the levels assigned by triggerClimax (3.0) and triggerCelebration (0.5)
ClimaxShake == 3000
CelebrationShake == 500
\* mutant: the target keeps its value
ShakeDecay_Keeps(shake, cap) == shake

\* targetShakeIntensity *= 0.98; a zero stays zero, and decay counts from
\* `cap` on are not told apart
ShakeDecay(shake, cap) ==
  IF shake.level = 0 THEN shake
  ELSE [shake EXCEPT !.decays = IF @ < cap THEN @ + 1 ELSE @]

SceneInit ==
  /\ now = 0
  /\ progress = 0
  /\ phase = "dormant"
  /\ climaxStartTime = Null
  /\ celebrationStartTime = Null
  /\ lastFireworkTime = 0
  /\ isDisposed = FALSE
  /\ animationFrameId = 1          \* the constructor runs animate() once
  /\ rafQueue = {1}
  /\ resizeListener = TRUE
  /\ canvasAttached = TRUE
  /\ sceneChildren = InitialChildren
  /\ disposedObjects = {}
  /\ burstLayers = InitialBurstLayers
  /\ shockwaves = << >>
  /\ fireworks = << >>
  /\ nextFirework = 0
  /\ timeouts = << >>
  /\ calls = [triggerClimax |-> 0, triggerCelebration |-> 0, dispose |-> 0]
  /\ lastFrame = "ran"
  /\ targetShakeIntensity = Shake(0)

\* wall-clock time passes between two events
ClockAdvance ==
  \E d \in ClockSteps :
    /\ now + d <= MaxTime
    /\ now' = now + d
    /\ UNCHANGED << progress, phase, climaxStartTime, celebrationStartTime,
                    lastFireworkTime, isDisposed, animationFrameId, rafQueue,
                    resizeListener, canvasAttached, sceneChildren, disposedObjects,
                    burstLayers, shockwaves, fireworks, nextFirework, timeouts,
                    calls, lastFrame, targetShakeIntensity >>

\* triggerClimax, called from updateProgress
triggerClimax ==
  \E sys \in {ShockwaveTriggerClimax(Sys(shockwaves, sceneChildren, disposedObjects),
                                     calls.triggerClimax * Len(ClimaxRings) + 1, now)} :
  LET time == now
  IN /\ climaxStartTime' = time
     /\ burstLayers' = BurstTrigger(burstLayers, time)
     /\ shockwaves' = sys.list
     /\ sceneChildren' = sys.children
     /\ disposedObjects' = sys.disposed
     /\ targetShakeIntensity' = Shake(ClimaxShake)
     /\ calls' = Called("triggerClimax")
     /\ UNCHANGED << celebrationStartTime, timeouts >>

\* triggerCelebration, called from updateProgress
triggerCelebration ==
  /\ celebrationStartTime' = now
  /\ targetShakeIntensity' = Shake(CelebrationShake)
  /\ timeouts' = ScheduleBurst(timeouts, 0, now)
  /\ calls' = Called("triggerCelebration")
  /\ UNCHANGED << climaxStartTime, burstLayers, shockwaves, sceneChildren, disposedObjects >>

updateProgress(newProgress, newPhase) ==
  LET previousPhase == phase
  IN /\ (EntersClimax(newPhase, previousPhase) \/ EntersCelebration(newPhase, previousPhase))
          => calls.triggerClimax + calls.triggerCelebration < MaxTriggers
     /\ progress' = newProgress
     /\ phase' = newPhase
     /\ IF EntersClimax(newPhase, previousPhase) THEN triggerClimax
        ELSE IF EntersCelebration(newPhase, previousPhase) THEN triggerCelebration
        ELSE UNCHANGED << climaxStartTime, celebrationStartTime, timeouts, burstLayers,
                          shockwaves, sceneChildren, disposedObjects, calls,
                          targetShakeIntensity >>
     /\ UNCHANGED << now, lastFireworkTime, isDisposed, animationFrameId, rafQueue,
                     resizeListener, canvasAttached, fireworks, nextFirework, lastFrame >>

UpdateProgress == \E in \in ProgressInputs : updateProgress(in[1], in[2])

\* mutant: the time since the last spawn is not tested
SpawnsFirework_NoRateLimit(time, fireworkInterval) == phase = "celebration"

\* animate: the test guarding the tick-driven firework spawn
SpawnsFirework(time, fireworkInterval) ==
  phase = "celebration" /\ time - lastFireworkTime > fireworkInterval

\* the body of animate, run with the frame requests `queue` outstanding
animate(queue) ==
  IF AnimateReturnsEarly
    THEN /\ rafQueue' = queue
         /\ lastFrame' = "skipped"
         /\ UNCHANGED << animationFrameId, burstLayers, shockwaves, fireworks,
                         sceneChildren, disposedObjects, nextFirework, lastFireworkTime,
                         targetShakeIntensity >>
    ELSE \E interval \in FireworkIntervals, lifetime \in FireworkLifetimes :
         \E sw \in {ShockwaveUpdate(Sys(shockwaves, sceneChildren, disposedObjects), now)} :
         \E fw \in {FireworkUpdate(Sys(fireworks, sw.children, sw.disposed), now)} :
           LET time == now
               spawns == SpawnsFirework(time, interval)
               fin == IF spawns THEN FireworkSpawn(fw, nextFirework + 1, time, lifetime) ELSE fw
           IN /\ lastFrame' = "ran"
              /\ targetShakeIntensity' = ShakeDecay(targetShakeIntensity, MaxShakeDecays)
              /\ animationFrameId' = NewHandle(queue)
              /\ rafQueue' = queue \cup {NewHandle(queue)}
              /\ burstLayers' = BurstUpdate(burstLayers, time)
              /\ shockwaves' = sw.list
              /\ fireworks' = fin.list
              /\ sceneChildren' = fin.children
              /\ disposedObjects' = fin.disposed
              /\ nextFirework' = IF spawns THEN nextFirework + 1 ELSE nextFirework
              /\ lastFireworkTime' = IF spawns THEN time ELSE lastFireworkTime

\* the browser runs a requested frame callback
Frame ==
  \E h \in rafQueue :
    /\ animate(rafQueue \ {h})
    /\ UNCHANGED << now, progress, phase, climaxStartTime, celebrationStartTime,
                    isDisposed, resizeListener, canvasAttached, timeouts, calls >>

\* a frame callback that was already dispatched runs on a disposed scene
StaleFrame ==
  /\ isDisposed
  /\ animate(rafQueue)
  /\ UNCHANGED << now, progress, phase, climaxStartTime, celebrationStartTime,
                  isDisposed, resizeListener, canvasAttached, timeouts, calls >>

\* a deferred callback of the initial firework burst runs; it is explored
\* while fewer than `cap` fireworks have been created
TimeoutCallback(cap) ==
  /\ timeouts # << >>
  /\ Head(timeouts) <= now
  /\ timeouts' = Tail(timeouts)
  /\ IF TimeoutSpawns
       THEN \E lifetime \in FireworkLifetimes :
              LET fin == FireworkSpawn(Sys(fireworks, sceneChildren, disposedObjects),
                                       nextFirework + 1, now, lifetime)
              IN /\ fireworks' = fin.list
                 /\ sceneChildren' = fin.children
                 /\ disposedObjects' = fin.disposed
                 /\ nextFirework' = nextFirework + 1
                 /\ nextFirework < cap
       ELSE UNCHANGED << fireworks, sceneChildren, disposedObjects, nextFirework >>
  /\ UNCHANGED << now, progress, phase, climaxStartTime, celebrationStartTime,
                  lastFireworkTime, isDisposed, animationFrameId, rafQueue,
                  resizeListener, canvasAttached, burstLayers, shockwaves, calls,
                  lastFrame, targetShakeIntensity >>

Timeout == TimeoutCallback(MaxFireworks)
BurstTimeout == TimeoutCallback(MaxBurstFireworks)

\* StarField.dispose, TimeParticles.dispose, FlashPlane.dispose: the object
\* is removed from the scene and its geometry and material are disposed
SingleDispose(sys, obj) ==
  Sys(sys.list, sys.children \ {obj}, sys.disposed \cup {obj})

\* scene.traverse(dispose every Mesh) followed by scene.clear()
ClearScene(sys) ==
  Sys(sys.list, {}, sys.disposed \cup {o \in sys.children : o.kind \in MeshKinds})

dispose ==
  \E star \in {SingleDispose(Sys(<< >>, sceneChildren, disposedObjects), StarFieldObj)} :
  \E vortex \in {SingleDispose(star, TimeParticlesObj)} :
  \E burst \in {BurstDispose(Sys(burstLayers, vortex.children, vortex.disposed))} :
  \E shock \in {ShockwaveDispose(Sys(shockwaves, burst.children, burst.disposed))} :
  \E fire \in {FireworkDispose(Sys(fireworks, shock.children, shock.disposed))} :
  \E flash \in {SingleDispose(fire, FlashPlaneObj)} :
  \E cleared \in {ClearScene(flash)} :
     /\ isDisposed' = TRUE
     /\ rafQueue' = IF animationFrameId # Null THEN rafQueue \ {animationFrameId} ELSE rafQueue
     /\ resizeListener' = FALSE
     /\ burstLayers' = burst.list
     /\ shockwaves' = shock.list
     /\ fireworks' = fire.list
     /\ canvasAttached' = FALSE
     /\ sceneChildren' = cleared.children
     /\ disposedObjects' = cleared.disposed
     /\ calls' = Called("dispose")
     /\ UNCHANGED << now, progress, phase, climaxStartTime, celebrationStartTime,
                     lastFireworkTime, animationFrameId, nextFirework, timeouts,
                     lastFrame, targetShakeIntensity >>

Dispose ==
  /\ calls.dispose < MaxDisposeCalls
  /\ dispose


\* ------------------------------------------------------------- useCountdown
\* PHASE_THRESHOLDS, in milliseconds
ThresholdCalm == 60 * 60 * 1000
ThresholdBuilding == 10 * 60 * 1000
ThresholdIntense == 60 * 1000
ThresholdFinal == 10 * 1000
CelebrationDelay == 6000
\* calculateState: totalDuration; progress is kept as a multiple of 1/totalDuration
TotalDuration == 60 * 60 * 1000
\* setInterval(..., 50)
SampleInterval == 50

Max(a, b) == IF a >= b THEN a ELSE b
Min(a, b) == IF a <= b THEN a ELSE b
\* the % operator of JavaScript: the sign of the result is the dividend's
JsMod(a, b) == IF a >= 0 THEN a % b ELSE 0 - ((0 - a) % b)
\* Math.floor(a / b) for b > 0
FloorDiv(a, b) == a \div b

\* mutant: the celebration threshold is compared strictly
calculatePhase_Strict(rem) ==
  IF rem < 0 - CelebrationDelay THEN "celebration"
  ELSE IF rem <= 0 THEN "climax"
  ELSE IF rem <= ThresholdFinal THEN "final"
  ELSE IF rem <= ThresholdIntense THEN "intense"
  ELSE IF rem <= ThresholdBuilding THEN "building"
  ELSE IF rem <= ThresholdCalm THEN "calm"
  ELSE "dormant"

calculatePhase(rem) ==
  IF rem <= 0 - CelebrationDelay THEN "celebration"
  ELSE IF rem <= 0 THEN "climax"
  ELSE IF rem <= ThresholdFinal THEN "final"
  ELSE IF rem <= ThresholdIntense THEN "intense"
  ELSE IF rem <= ThresholdBuilding THEN "building"
  ELSE IF rem <= ThresholdCalm THEN "calm"
  ELSE "dormant"

\* mutant: the sub-second remainder is not clamped at 0
formatTimeDisplay_NoClamp(rem) ==
  LET totalSeconds == Max(0, FloorDiv(rem, 1000))
  IN [hours |-> FloorDiv(totalSeconds, 3600),
      minutes |-> FloorDiv(totalSeconds % 3600, 60),
      seconds |-> totalSeconds % 60,
      milliseconds |-> JsMod(rem, 1000)]

formatTimeDisplay(rem) ==
  LET totalSeconds == Max(0, FloorDiv(rem, 1000))
  IN [hours |-> FloorDiv(totalSeconds, 3600),
      minutes |-> FloorDiv(totalSeconds % 3600, 60),
      seconds |-> totalSeconds % 60,
      milliseconds |-> Max(0, JsMod(rem, 1000))]

\* mutant: progress is not clamped to [0, 1]
calculateState_NoClamp(target, dateNow) ==
  LET rem == target - dateNow
  IN [timeRemaining |-> rem,
      progress |-> TotalDuration - rem,
      phase |-> calculatePhase(rem),
      display |-> formatTimeDisplay(rem),
      isPast |-> rem <= 0]

\* mutant: isPast is compared strictly
calculateState_StrictPast(target, dateNow) ==
  LET rem == target - dateNow
  IN [timeRemaining |-> rem,
      progress |-> Max(0, Min(TotalDuration, TotalDuration - rem)),
      phase |-> calculatePhase(rem),
      display |-> formatTimeDisplay(rem),
      isPast |-> rem < 0]

\* calculateState(targetDate), with Date.now() = dateNow
calculateState(target, dateNow) ==
  LET rem == target - dateNow
  IN [timeRemaining |-> rem,
      progress |-> Max(0, Min(TotalDuration, TotalDuration - rem)),
      phase |-> calculatePhase(rem),
      display |-> formatTimeDisplay(rem),
      isPast |-> rem <= 0]

\* the target instants explored, relative to the time the hook is mounted:
\* every threshold, its two neighbours, and the scenario values of the tests
RemainingSamples ==
  LET thresholds == {0 - CelebrationDelay, 0, ThresholdFinal, ThresholdIntense,
                     ThresholdBuilding, ThresholdCalm}
  IN UNION {{t - 1, t, t + 1} : t \in thresholds}
       \cup {-10000, -2000, -1500, -500, 5000, 30000, 300000, 1800000, 3661500, 7200000}

\* sampled wall-clock time between two ticks of the 50 ms interval
SampleSteps == {1, SampleInterval, 999, 5000}

\* the scene variables are not part of the countdown
SceneIdle == UNCHANGED << sceneVars, clockVars, mathVars, effectVars >>
CountdownIdle == UNCHANGED << countdownVars, clockVars, mathVars, effectVars >>

\* the targets a re-render may pass to the hook
NewTargets == {-2000, 30000}

\* mutant: the cleanup leaves the interval running
EffectCleanup_Leaks(timers, id) == timers

\* the effect's cleanup: clearInterval(interval)
EffectCleanup(timers, id) == {iv \in timers : iv.id # id}

\* the effect's body: setInterval(() => setState(calculateState(targetDate)), 50);
\* the callback closes over the targetDate of the render that ran the effect
EffectSetup(timers, id, target) == timers \cup {[id |-> id, targetDate |-> target]}

\* the mount: useState(() => calculateState(targetDate)), then the effect;
\* `remaining` is targetDate - Date.now()
CountdownInit ==
  /\ targetDate \in RemainingSamples
  /\ wallClock = 0
  /\ remaining = targetDate - wallClock
  /\ state = calculateState(targetDate, wallClock)
  /\ samples = 0
  /\ mounted = TRUE
  /\ effectRuns = 1
  /\ intervals = EffectSetup({}, 1, targetDate)

\* the interval callback: setState(calculateState(targetDate))
Sample ==
  \E iv \in intervals, step \in SampleSteps :
    /\ samples < MaxSamples
    /\ samples' = samples + 1
    /\ wallClock' = wallClock + step
    /\ remaining' = iv.targetDate - wallClock'
    /\ state' = calculateState(iv.targetDate, wallClock')
    /\ UNCHANGED << targetDate, mounted, intervals, effectRuns >>
    /\ SceneIdle

\* a re-render with another targetDate: the dependency [targetDate] changed,
\* so the cleanup of the previous effect runs, then the effect again
ChangeTarget ==
  \E target \in NewTargets :
    /\ mounted
    /\ target # targetDate
    /\ effectRuns < MaxEffectRuns
    /\ targetDate' = target
    /\ effectRuns' = effectRuns + 1
    /\ intervals' = EffectSetup(EffectCleanup(intervals, effectRuns), effectRuns + 1, target)
    /\ UNCHANGED << remaining, state, samples, wallClock, mounted >>
    /\ SceneIdle

\* the unmount: the cleanup of the last effect runs
Unmount ==
  /\ mounted
  /\ mounted' = FALSE
  /\ intervals' = EffectCleanup(intervals, effectRuns)
  /\ UNCHANGED << remaining, state, samples, targetDate, wallClock, effectRuns >>
  /\ SceneIdle

\* ------------------------------------------- numbers (IEEE 754 doubles)
\* A JavaScript number is modelled as a binary floating-point value with a
\* 53-bit significand, every operation rounding its exact result to nearest,
\* ties to even.  Exponents are not bounded (no overflow, no subnormals) and
\* the sign of zero is not kept: the values below stay far from both.
\*
\* Naturals of any size are sequences of limbs in base 2^15, least significant
\* limb first, without a leading zero limb.
LimbBits == 15
LimbBase == 32768
Precision == 53

RECURSIVE BigTrim(_)
BigTrim(a) ==
  IF a = << >> THEN << >>
  ELSE IF a[Len(a)] = 0 THEN BigTrim(SubSeq(a, 1, Len(a) - 1)) ELSE a

RECURSIVE BigOfNat(_)
BigOfNat(n) == IF n = 0 THEN << >> ELSE << n % LimbBase >> \o BigOfNat(n \div LimbBase)

RECURSIVE BigZeros(_)
BigZeros(k) == IF k <= 0 THEN << >> ELSE << 0 >> \o BigZeros(k - 1)

\* a + b + carry
RECURSIVE BigAddC(_, _, _)
BigAddC(a, b, carry) ==
  IF a = << >> /\ b = << >> THEN (IF carry = 0 THEN << >> ELSE << carry >>)
  ELSE LET x == IF a = << >> THEN 0 ELSE a[1]
           y == IF b = << >> THEN 0 ELSE b[1]
       IN << (x + y + carry) % LimbBase >>
            \o BigAddC(IF a = << >> THEN << >> ELSE Tail(a),
                       IF b = << >> THEN << >> ELSE Tail(b),
                       (x + y + carry) \div LimbBase)
BigAdd(a, b) == BigAddC(a, b, 0)

\* a - b - borrow, for a >= b + borrow
RECURSIVE BigSubB(_, _, _)
BigSubB(a, b, borrow) ==
  IF a = << >> THEN << >>
  ELSE LET y == IF b = << >> THEN 0 ELSE b[1]
       IN << (a[1] - y - borrow + LimbBase) % LimbBase >>
            \o BigSubB(Tail(a), IF b = << >> THEN << >> ELSE Tail(b),
                       IF a[1] - y - borrow < 0 THEN 1 ELSE 0)
BigSub(a, b) == BigTrim(BigSubB(a, b, 0))

\* the sign of a - b, for a and b that agree above limb i
RECURSIVE BigCmpFrom(_, _, _)
BigCmpFrom(a, b, i) ==
  IF Len(a) < Len(b) THEN -1
  ELSE IF Len(a) > Len(b) THEN 1
  ELSE IF i = 0 THEN 0
  ELSE IF a[i] < b[i] THEN -1
  ELSE IF a[i] > b[i] THEN 1
  ELSE BigCmpFrom(a, b, i - 1)
BigCmp(a, b) == BigCmpFrom(a, b, Len(a))

\* a * k + carry, for a limb k
RECURSIVE BigMulSmallC(_, _, _)
BigMulSmallC(a, k, carry) ==
  IF a = << >> THEN (IF carry = 0 THEN << >> ELSE << carry >>)
  ELSE << (a[1] * k + carry) % LimbBase >>
         \o BigMulSmallC(Tail(a), k, (a[1] * k + carry) \div LimbBase)

RECURSIVE BigMul(_, _)
BigMul(a, b) ==
  IF a = << >> \/ b = << >> THEN << >>
  ELSE BigAdd(IF a[1] = 0 THEN << >> ELSE BigMulSmallC(b, a[1], 0),
              IF Len(a) = 1 THEN << >> ELSE << 0 >> \o BigMul(Tail(a), b))

\* floor(a / k) above limb i, for a limb k > 0: long division from the top
\* limb down
RECURSIVE BigDivSmallFrom(_, _, _, _)
BigDivSmallFrom(a, k, i, rem) ==
  IF i = 0 THEN << >>
  ELSE BigDivSmallFrom(a, k, i - 1, (rem * LimbBase + a[i]) % k)
         \o << (rem * LimbBase + a[i]) \div k >>

\* a * 2^n and floor(a / 2^n)
BigShiftL(a, n) ==
  IF a = << >> THEN << >>
  ELSE BigZeros(n \div LimbBits) \o BigMulSmallC(a, 2 ^ (n % LimbBits), 0)
BigShiftR(a, n) ==
  IF n \div LimbBits >= Len(a) THEN << >>
  ELSE LET high == SubSeq(a, n \div LimbBits + 1, Len(a))
       IN BigTrim(BigDivSmallFrom(high, 2 ^ (n % LimbBits), Len(high), 0))

\* the number of bits of a limb and of a
RECURSIVE SmallBitLen(_)
SmallBitLen(x) == IF x = 0 THEN 0 ELSE 1 + SmallBitLen(x \div 2)
BigBitLen(a) ==
  IF a = << >> THEN 0 ELSE LimbBits * (Len(a) - 1) + SmallBitLen(a[Len(a)])

\* floor(a / b): q is the quotient above bit i, built bit by bit
RECURSIVE BigDivFrom(_, _, _, _)
BigDivFrom(a, b, q, i) ==
  IF i < 0 THEN q
  ELSE IF BigCmp(BigMul(BigAdd(q, BigShiftL(<< 1 >>, i)), b), a) <= 0
    THEN BigDivFrom(a, b, BigAdd(q, BigShiftL(<< 1 >>, i)), i - 1)
    ELSE BigDivFrom(a, b, q, i - 1)

\* floor(sqrt(n)): r is the root above bit i, built bit by bit
RECURSIVE BigSqrtFrom(_, _, _)
BigSqrtFrom(n, r, i) ==
  IF i < 0 THEN r
  ELSE IF BigCmp(BigMul(BigAdd(r, BigShiftL(<< 1 >>, i)),
                        BigAdd(r, BigShiftL(<< 1 >>, i))), n) <= 0
    THEN BigSqrtFrom(n, BigAdd(r, BigShiftL(<< 1 >>, i)), i - 1)
    ELSE BigSqrtFrom(n, r, i - 1)

RECURSIVE BigPow(_, _)
BigPow(a, k) == IF k = 0 THEN << 1 >> ELSE BigMul(a, BigPow(a, k - 1))

\* A number is s * m * 2^e with s the sign, m a natural of exactly 53 bits and
\* e an integer; zero has the empty significand.
FZero == [s |-> 1, m |-> << >>, e |-> 0]
FIsZero(x) == x.m = << >>

\* The number nearest to s * (M + f) * 2^e, where 0 < f < 1 if sticky and
\* f = 0 otherwise.  mode "nearest" rounds to nearest, ties to even; "down"
\* and "up" round the magnitude towards zero and away from it.  A sticky M
\* has more than 54 bits.  M is cut to its top 53 bits q, d bits are dropped;
\* half is the sign of (dropped part - one half of the last kept bit).
FRound(s, M, e, sticky, mode) ==
  LET Pack(q, ex) ==
        IF BigBitLen(q) > Precision
          THEN [s |-> s, m |-> BigShiftR(q, 1), e |-> ex + 1]
          ELSE [s |-> s, m |-> q, e |-> ex]
      Up(q, exact, half) ==
        CASE mode = "nearest" ->
               half > 0 \/ (half = 0 /\ (sticky \/ q[1] % 2 = 1))
          [] mode = "up" -> ~exact \/ sticky
          [] mode = "down" -> FALSE
      Decide(q, r, d) ==
        Pack(IF Up(q, r = << >>, BigCmp(r, BigShiftL(<< 1 >>, d - 1)))
               THEN BigAdd(q, << 1 >>) ELSE q,
             e + d)
      Cut(q, d) == Decide(q, BigSub(M, BigShiftL(q, d)), d)
      Size(len) ==
        IF len <= Precision
          THEN [s |-> s, m |-> BigShiftL(M, Precision - len),
                e |-> e - (Precision - len)]
          ELSE Cut(BigShiftR(M, len - Precision), len - Precision)
  IN IF M = << >> THEN FZero ELSE Size(BigBitLen(M))

FNeg(x) == IF FIsZero(x) THEN x ELSE [x EXCEPT !.s = -x.s]

\* x + y: the significands a and b brought to the smaller exponent
FAdd(x, y) ==
  LET Sum(a, b, e, order) ==
        FRound(IF x.s = y.s \/ order >= 0 THEN x.s ELSE y.s,
               IF x.s = y.s THEN BigAdd(a, b)
               ELSE IF order >= 0 THEN BigSub(a, b) ELSE BigSub(b, a),
               e, FALSE, "nearest")
      Align(a, b, e) == Sum(a, b, e, BigCmp(a, b))
      At(e) == Align(BigShiftL(x.m, x.e - e), BigShiftL(y.m, y.e - e), e)
  IN IF FIsZero(x) THEN y
     ELSE IF FIsZero(y) THEN x
     ELSE At(IF x.e < y.e THEN x.e ELSE y.e)

\* x - y
FSub(x, y) == FAdd(x, FNeg(y))

\* x * y
FMul(x, y) ==
  IF FIsZero(x) \/ FIsZero(y) THEN FZero
  ELSE FRound(x.s * y.s, BigMul(x.m, y.m), x.e + y.e, FALSE, "nearest")

\* x / y, for y # 0: a quotient q of 56 or 57 bits of a = x.m * 2^56 by y.m,
\* and whether a remainder is left
FDiv(x, y) ==
  LET Quotient(a, q) ==
        FRound(x.s * y.s, q, x.e - (Precision + 3) - y.e,
               BigMul(q, y.m) # a, "nearest")
      Scaled(a) == Quotient(a, BigDivFrom(a, y.m, << >>, Precision + 3))
  IN IF FIsZero(x) THEN FZero ELSE Scaled(BigShiftL(x.m, Precision + 3))

\* x < y, x <= y: the sign of the difference, which rounding never changes
FLt(x, y) == FSub(x, y).s = -1
FLe(x, y) == ~FLt(y, x)

\* Math.min, Math.max
FMin(x, y) == IF FLt(y, x) THEN y ELSE x
FMax(x, y) == IF FLt(x, y) THEN y ELSE x

\* the number an integer literal denotes
FOfInt(n) ==
  FRound(IF n < 0 THEN -1 ELSE 1, BigOfNat(IF n < 0 THEN -n ELSE n), 0,
         FALSE, "nearest")

\* the number the decimal literal num / den denotes (den a power of ten):
\* the number nearest to the quotient
FDec(num, den) == FDiv(FOfInt(num), FOfInt(den))

FOne == FOfInt(1)

\* y >= 0 is a multiple of one half, and then 2 * y as an integer
FIsHalves(y) ==
  \/ FIsZero(y)
  \/ /\ y.s = 1
     /\ y.e + 1 >= -(Precision - 1)
     /\ (y.e + 1 < 0 => BigShiftL(BigShiftR(y.m, -(y.e + 1)), -(y.e + 1)) = y.m)
FHalves(y) ==
  LET Value(k) ==
        IF k = << >> THEN 0 ELSE IF Len(k) = 1 THEN k[1] ELSE k[1] + LimbBase * k[2]
  IN IF FIsZero(y) THEN 0
     ELSE IF y.e + 1 >= 0 THEN Value(BigShiftL(y.m, y.e + 1))
     ELSE Value(BigShiftR(y.m, -(y.e + 1)))

\* sqrt(N * 2^E) for E even, rounded by mode: N is brought to n of 109 or 110
\* bits by an even shift t so that its root has 55 bits
FSqrtOf(N, E, mode) ==
  LET Rooted(n, t, root) ==
        FRound(1, root, (E + t) \div 2,
               (t > 0 /\ BigShiftL(n, t) # N) \/ BigMul(root, root) # n, mode)
      Shifted(n, t) == Rooted(n, t, BigSqrtFrom(n, << >>, 55))
      By(t) == Shifted(IF t >= 0 THEN BigShiftR(N, t) ELSE BigShiftL(N, -t), t)
      Size(len) ==
        By(IF len >= 109 THEN 2 * ((len - 109) \div 2)
           ELSE -2 * ((110 - len) \div 2))
  IN Size(BigBitLen(N))

\* Math.pow is defined here for y = 0, for x = 1, for x = 0 with y > 0, for
\* x # 0 with y a positive integer, and for x > 0 with y a positive multiple
\* of one half
PowDefined(x, y) ==
  \/ FIsZero(y)
  \/ x = FOne
  \/ FIsZero(x) /\ y.s = 1
  \/ ~FIsZero(x) /\ FIsHalves(y) /\ FHalves(y) % 2 = 0
  \/ ~FIsZero(x) /\ x.s = 1 /\ FIsHalves(y)

\* Math.pow(x, y).  ECMAScript leaves the precision of Math.pow to the
\* implementation; engines return the exact power when it is a number and
\* otherwise one of the two numbers next to it, so mode ("down" or "up")
\* is a choice of the caller.  With k = 2 * y: for k even the power
\* x^(k/2), for k odd the square root of x^k.
PowModes == {"down", "up"}
FPow(x, y, mode) ==
  LET Root(N, E) ==
        IF E % 2 = 0 THEN FSqrtOf(N, E, mode)
        ELSE FSqrtOf(BigShiftL(N, 1), E - 1, mode)
      Power(k) ==
        IF k % 2 = 0
          THEN FRound(IF x.s = -1 /\ (k \div 2) % 2 = 1 THEN -1 ELSE 1,
                      BigPow(x.m, k \div 2), x.e * (k \div 2), FALSE, mode)
          ELSE Root(BigPow(x.m, k), x.e * k)
  IN CASE FIsZero(y) \/ x = FOne -> FOne
       [] ~FIsZero(y) /\ FIsZero(x) /\ y.s = 1 -> FZero
       [] ~FIsZero(y) /\ ~FIsZero(x) /\ x # FOne /\ PowDefined(x, y) ->
            Power(FHalves(y))

\* ------------------------------------------------------------------- ease
EasingNames ==
  { "linear", "inQuad", "outQuad", "inOutQuad", "inCubic", "outCubic",
    "inOutCubic", "outExpo", "inExpo", "outBack", "elastic", "dramaticRamp",
    "finalCountdown" }

\* ease.dramaticRamp(t)
dramaticRamp(t, mode) ==
  IF FLt(t, FDec(83, 100))
    THEN FMul(FDiv(t, FDec(83, 100)), FDec(3, 10))
    ELSE LET normalized == FDiv(FSub(t, FDec(83, 100)), FDec(17, 100))
         IN FAdd(FDec(3, 10),
                 FMul(FPow(normalized, FDec(25, 10), mode), FDec(7, 10)))

\* ease[name](t); elastic needs Math.sin between the two ends of its range,
\* which is not modelled
ease(name, t, mode) ==
  CASE name = "linear" -> t
    [] name = "inQuad" -> FMul(t, t)
    [] name = "outQuad" -> FMul(t, FSub(FOfInt(2), t))
    [] name = "inOutQuad" ->
         IF FLt(t, FDec(5, 10))
           THEN FMul(FMul(FOfInt(2), t), t)
           ELSE FAdd(FOfInt(-1), FMul(FSub(FOfInt(4), FMul(FOfInt(2), t)), t))
    [] name = "inCubic" -> FMul(FMul(t, t), t)
    [] name = "outCubic" ->   \* (--t) * t * t + 1
         FAdd(FMul(FMul(FSub(t, FOne), FSub(t, FOne)), FSub(t, FOne)), FOne)
    [] name = "inOutCubic" ->
         IF FLt(t, FDec(5, 10))
           THEN FMul(FMul(FMul(FOfInt(4), t), t), t)
           ELSE FAdd(FMul(FMul(FSub(t, FOne),
                               FSub(FMul(FOfInt(2), t), FOfInt(2))),
                          FSub(FMul(FOfInt(2), t), FOfInt(2))),
                     FOne)
    [] name = "outExpo" ->
         IF t = FOne THEN FOne
         ELSE FSub(FOne, FPow(FOfInt(2), FMul(FOfInt(-10), t), mode))
    [] name = "inExpo" ->
         IF t = FZero THEN FZero
         ELSE FPow(FOfInt(2), FMul(FOfInt(10), FSub(t, FOne)), mode)
    [] name = "outBack" ->
         LET c1 == FDec(170158, 100000)
             c3 == FAdd(c1, FOne)
         IN FAdd(FAdd(FOne, FMul(c3, FPow(FSub(t, FOne), FOfInt(3), mode))),
                 FMul(c1, FPow(FSub(t, FOne), FOfInt(2), mode)))
    [] name = "elastic" /\ t = FZero -> FZero
    [] name = "elastic" /\ t = FOne -> FOne
    [] name = "dramaticRamp" -> dramaticRamp(t, mode)
    [] name = "finalCountdown" ->
         IF FLt(t, FDec(98, 100))
           THEN dramaticRamp(t, mode)
           ELSE LET normalized == FDiv(FSub(t, FDec(98, 100)), FDec(2, 100))
                IN FAdd(FDec(9, 10),
                        FMul(FPow(normalized, FDec(15, 10), mode), FDec(1, 10)))

\* ------------------------------------------------------------- smoothLerp
smoothLerp(current, target, speed, dt, mode) ==
  LET factor == FSub(FOne, FPow(FSub(FOne, speed), FMul(dt, FOfInt(60)), mode))
  IN FAdd(current, FMul(FSub(target, current), factor))

\* ---------------------------------------------- progress given to the scene
\* calculateState: Math.max(0, Math.min(1, 1 - remaining / totalDuration))
ProgressNumber(timeRemaining) ==
  FMax(FZero, FMin(FOne, FSub(FOne, FDiv(FOfInt(timeRemaining),
                                          FOfInt(TotalDuration)))))

\* the debug slider at the position tenths / 10 of its range 0 .. 100:
\* parseFloat(value) / 100
SliderProgress(tenths) == FDiv(FDec(tenths, 10), FOfInt(100))

\* a debug preset p (in 1/100): Math.min(p, 1.001)
PresetProgress(hundredths) == FMin(FDec(hundredths, 100), FDec(1001, 1000))
PRESETS == {0, 50, 83, 95, 99, 100, 110}

\* the progress values updateProgress is called with: the presets, sampled
\* positions of the slider and sampled remaining times (ms)
SceneProgressValues ==
  {PresetProgress(p) : p \in PRESETS}
    \cup {SliderProgress(v) : v \in {0, 1, 415, 829, 830, 835, 900, 999, 1000}}
    \cup {ProgressNumber(r) : r \in {-2000, 0, 1, 10000, 600000, 612000,
                                     3599999, 3600000, 7200000}}

\* the opacity StarField.update derives from dramaticIntensity
StarFieldOpacity(dramaticIntensity) ==
  FAdd(FDec(7, 10), FMul(dramaticIntensity, FDec(3, 10)))

\* -------------------------------------------------- calls of the functions
\* A call is followed from its arguments to its result: mathCall holds the
\* function, the arguments and, once it returned, the result.
NoCall == [fn |-> Null]

\* every easing function at the two ends of its range
EaseCalls == {[fn |-> name, t |-> t, done |-> FALSE] :
                name \in EasingNames, t \in {FZero, FOne}}

\* smoothLerp on sampled values, speeds in [0,1] and frame deltas, where
\* Math.pow is defined
LerpValues == {FOfInt(-1), FZero, FDec(1, 10), FDec(3, 10), FOne}
LerpCalls ==
  {c \in [fn : {"smoothLerp"}, current : LerpValues, target : LerpValues,
          speed : {FZero, FDec(1, 10), FDec(5, 10), FOne},
          dt : {FZero, FDec(16, 1000), FDec(25, 1000), FDec(5, 100), FDec(1, 10)},
          done : {FALSE}] :
     PowDefined(FSub(FOne, c.speed), FMul(c.dt, FOfInt(60)))}

\* the intensity of a tick for each progress value
TickCalls == {[fn |-> "animate", progress |-> p, done |-> FALSE] :
                p \in SceneProgressValues}

EaseReturn ==
  /\ mathCall.fn \in EasingNames
  /\ ~mathCall.done
  /\ \E mode \in PowModes :
       \E value \in {ease(mathCall.fn, mathCall.t, mode)} :
         mathCall' = [fn |-> mathCall.fn, t |-> mathCall.t, done |-> TRUE,
                      value |-> value]

SmoothLerpReturn ==
  /\ mathCall.fn = "smoothLerp"
  /\ ~mathCall.done
  /\ \E mode \in PowModes :
       \E value \in {smoothLerp(mathCall.current, mathCall.target,
                                 mathCall.speed, mathCall.dt, mode)} :
         mathCall' = [fn |-> "smoothLerp", current |-> mathCall.current,
                      target |-> mathCall.target, speed |-> mathCall.speed,
                      dt |-> mathCall.dt, done |-> TRUE, value |-> value]

\* animate: dramaticIntensity = ease.dramaticRamp(this.progress), passed to
\* starField.update
AnimateIntensity ==
  /\ mathCall.fn = "animate"
  /\ ~mathCall.done
  /\ \E mode \in PowModes :
       \E value \in {dramaticRamp(mathCall.progress, mode)} :
         mathCall' = [fn |-> "animate", progress |-> mathCall.progress,
                      done |-> TRUE, dramaticIntensity |-> value,
                      opacity |-> StarFieldOpacity(value)]

\* ------------------------------------------------- delta time of a tick
\* Math.min(clock.getDelta(), 0.1), and the fallback of updateFOV, in ms
DeltaCeiling == 100
FovFallbackDelta == 16

\* time that may pass between two frames, and between two clock reads of
\* one tick (a stalled main thread gives the large ones), in ms
FrameGaps == {16, 33, 5000}
ReadGaps == {0, 1, 120}

\* THREE.Clock.getDelta() at performance.now() = t: the first read starts the
\* clock and returns 0; a later one returns the time since oldTime, moves
\* oldTime to t and adds the difference to elapsedTime
ClockGetDelta(c, t) ==
  IF ~c.running
    THEN [clock |-> [running |-> TRUE, oldTime |-> t, elapsedTime |-> 0], value |-> 0]
    ELSE [clock |-> [running |-> TRUE, oldTime |-> t,
                     elapsedTime |-> c.elapsedTime + (t - c.oldTime)],
          value |-> t - c.oldTime]

\* THREE.Clock.getElapsedTime(): getDelta(), then elapsedTime
ClockGetElapsedTime(c, t) ==
  LET read == ClockGetDelta(c, t)
  IN [clock |-> read.clock, value |-> read.clock.elapsedTime]

\* new THREE.Clock(): autoStart, not running
ClockInit ==
  /\ clock = [running |-> FALSE, oldTime |-> 0, elapsedTime |-> 0]
  /\ perfNow = 0
  /\ tickDt = 0
  /\ fovDt = 0
  /\ ticks = 0

\* the clock reads of one run of animate on a scene that is not disposed:
\* time = getElapsedTime(); dt = Math.min(getDelta(), 0.1); and, in updateFOV,
\* getDelta() || 0.016
AnimateClockReads ==
  \E frameGap \in FrameGaps, gap1 \in ReadGaps, gap2 \in ReadGaps :
    \E time \in {ClockGetElapsedTime(clock, perfNow + frameGap)} :
    \E delta \in {ClockGetDelta(time.clock, perfNow + frameGap + gap1)} :
    \E fovDelta \in {ClockGetDelta(delta.clock, perfNow + frameGap + gap1 + gap2)} :
      /\ ticks < MaxTicks
      /\ ticks' = ticks + 1
      /\ perfNow' = perfNow + frameGap + gap1 + gap2
      /\ tickDt' = IF delta.value <= DeltaCeiling THEN delta.value ELSE DeltaCeiling
      /\ fovDt' = IF fovDelta.value # 0 THEN fovDelta.value ELSE FovFallbackDelta
      /\ clock' = fovDelta.clock
      /\ UNCHANGED << sceneVars, countdownVars, mathVars, effectVars >>

\* ------------------------------------------- BurstSystem: particle buffers
\* A layer's buffers are kept beside its entry of burstLayers: the position
\* attribute of its geometry, the opacity of its material, its velocities
\* and its lifetimes.  Positions are in 1/1000 of a world unit (rounded
\* down), velocities in units per second, lifetimes in units of scene time,
\* opacity in 1/10000.

\* createLayer draws a velocity and a lifetime in [2.5, 5.5) s per particle:
\* two particles that both expire before the fade ends, or one of them after
ParticleSets ==
  { << [velocity |-> << 12, 16, -9 >>, lifetime |-> 50],
       [velocity |-> << -10, 5, 14 >>, lifetime |-> 80] >>,
    << [velocity |-> << 12, 16, -9 >>, lifetime |-> 50],
       [velocity |-> << -10, 5, 14 >>, lifetime |-> 108] >> }

\* BurstSystem.createLayer: all particles at the origin, opacity 1.0
InitialBuffers(particles) ==
  [i \in 1..BurstLayerCount |->
     [position |-> [j \in 1..Len(particles) |-> << 0, 0, 0 >>],
      opacity |-> 10000,
      velocities |-> [j \in 1..Len(particles) |-> particles[j].velocity],
      lifetimes |-> [j \in 1..Len(particles) |-> particles[j].lifetime]]]

\* mutant: the opacity is not reset
BufferTrigger_KeepsOpacity(buffers) ==
  [i \in 1..Len(buffers) |->
     [buffers[i] EXCEPT !.position = [j \in 1..Len(@) |-> << 0, 0, 0 >>]]]

\* BurstSystem.trigger: every position is zeroed, the opacity is set to 1.0
BufferTrigger(buffers) ==
  [i \in 1..Len(buffers) |->
     [buffers[i] EXCEPT !.position = [j \in 1..Len(@) |-> << 0, 0, 0 >>],
                        !.opacity = 10000]]

\* BurstSystem.update: the buffers of every layer that has started are
\* rewritten.  A particle past its lifetime is put at (0, -1000, 0); another
\* one has travelled outCubic(elapsed / lifetime) * lifetime (`travel`, in ms)
\* along its velocity and fallen by 0.5 * 9.8 * elapsed^2.  The opacity is
\* max(0, 1 - inQuad(min(elapsed / FADE_DURATION, 1))).
BufferUpdate(buffers, layers, time) ==
  LET Position(velocity, lifetime, elapsed) ==
        IF elapsed > lifetime THEN << 0, -1000000, 0 >>
        ELSE LET left == lifetime - elapsed
                 travel == (50 * (lifetime * lifetime * lifetime - left * left * left))
                             \div (lifetime * lifetime)
                 fall == (49 * elapsed * elapsed) \div 4
             IN << velocity[1] * travel, velocity[2] * travel - fall,
                   velocity[3] * travel >>
      Fade(elapsed) == Min((100 * elapsed) \div FADE_DURATION, 100)
  IN [i \in 1..Len(buffers) |->
        IF layers[i].startTime = Null \/ time - layers[i].startTime < 0
          THEN buffers[i]
        ELSE [buffers[i] EXCEPT
                !.position = [j \in 1..Len(buffers[i].lifetimes) |->
                                Position(buffers[i].velocities[j],
                                         buffers[i].lifetimes[j],
                                         time - layers[i].startTime)],
                !.opacity = Max(0, 10000 - Fade(time - layers[i].startTime)
                                            * Fade(time - layers[i].startTime))]]

\* the buffers as createLayer leaves them (a draw whose particles all expire
\* before the fade ends) and the shake at construction
EffectInit ==
  /\ burstBuffers \in {InitialBuffers(particles) :
                         particles \in {p \in ParticleSets : p[2].lifetime = 80}}
  /\ shakeIntensity = FZero

\* scene time passes between two calls of the burst system
LayerClockAdvance ==
  \E d \in LayerSteps :
    /\ now + d <= MaxLayerTime
    /\ now' = now + d
    /\ UNCHANGED << burstLayers, burstBuffers >>

\* burstSystem.trigger(time), as triggerClimax calls it
BurstTriggerCall ==
  /\ burstLayers' = BurstTrigger(burstLayers, now)
  /\ burstBuffers' = BufferTrigger(burstBuffers)
  /\ UNCHANGED now

\* burstSystem.update(time), as animate calls it
BurstUpdateCall ==
  /\ burstLayers' = BurstUpdate(burstLayers, now)
  /\ burstBuffers' = BufferUpdate(burstBuffers, burstLayers, now)
  /\ UNCHANGED now

\* everything but the burst system and the scene time
LayerIdle ==
  UNCHANGED << progress, phase, climaxStartTime, celebrationStartTime,
               lastFireworkTime, isDisposed, animationFrameId, rafQueue,
               resizeListener, canvasAttached, sceneChildren, disposedObjects,
               shockwaves, fireworks, nextFirework, timeouts, calls, lastFrame,
               targetShakeIntensity, shakeIntensity,
               countdownVars, clockVars, mathVars >>

\* ------------------------------------------------------------ camera shake
\* the double a targetShakeIntensity holds: its level, multiplied by 0.98
\* once per decay (the value before the last decay is bound as `before`, so
\* it is computed once)
RECURSIVE ShakeValue(_)
ShakeValue(shake) ==
  IF shake.decays = 0 THEN FDec(shake.level, 1000)
  ELSE CHOOSE value \in
         {FMul(before, factor) :
            before \in {ShakeValue([shake EXCEPT !.decays = @ - 1])},
            factor \in {FDec(98, 100)}} : TRUE

\* triggerClimax and triggerCelebration: the assignment to targetShakeIntensity
ShakeTrigger ==
  \E name \in {"triggerClimax", "triggerCelebration"} :
    /\ calls.triggerClimax + calls.triggerCelebration < MaxTriggers
    /\ calls' = Called(name)
    /\ targetShakeIntensity' =
         Shake(IF name = "triggerClimax" THEN ClimaxShake ELSE CelebrationShake)
    /\ UNCHANGED shakeIntensity

\* animate: shakeIntensity is smoothed towards the target with the tick's
\* delta time (here the ceiling, 0.1 s), then the target decays
ShakeTick ==
  \E mode \in PowModes :
  \E target \in {ShakeValue(targetShakeIntensity)} :
  \E speed \in {FDec(1, 10)}, dt \in {FDec(DeltaCeiling, 1000)} :
  \E smoothed \in {smoothLerp(shakeIntensity, target, speed, dt, mode)} :
    /\ targetShakeIntensity.level > 0 => targetShakeIntensity.decays < MaxShakeTicks
    /\ shakeIntensity' = smoothed
    /\ targetShakeIntensity' = ShakeDecay(targetShakeIntensity, MaxShakeTicks)
    /\ UNCHANGED calls

\* everything but the shake and the count of the triggers
ShakeIdle ==
  UNCHANGED << now, progress, phase, climaxStartTime, celebrationStartTime,
               lastFireworkTime, isDisposed, animationFrameId, rafQueue,
               resizeListener, canvasAttached, sceneChildren, disposedObjects,
               burstLayers, shockwaves, fireworks, nextFirework, timeouts,
               lastFrame, burstBuffers, countdownVars, clockVars, mathVars >>

\* ---------------------------------------------------------- specifications
Init ==
  /\ SceneInit
  /\ ClockInit
  /\ EffectInit
  /\ mathCall = NoCall
  /\ targetDate = 2 * TotalDuration
  /\ wallClock = 0
  /\ remaining = targetDate - wallClock
  /\ state = calculateState(targetDate, wallClock)
  /\ samples = 0
  /\ mounted = TRUE
  /\ effectRuns = 1
  /\ intervals = EffectSetup({}, 1, targetDate)

Next ==
  \/ (ClockAdvance /\ CountdownIdle)
  \/ (UpdateProgress /\ CountdownIdle)
  \/ (Frame /\ CountdownIdle)
  \/ (StaleFrame /\ CountdownIdle)
  \/ (Timeout /\ CountdownIdle)
  \/ (Dispose /\ CountdownIdle)

Spec == Init /\ [][Next]_vars

\* the scene, followed through a whole initial firework burst
BurstNext ==
  \/ (ClockAdvance /\ CountdownIdle)
  \/ (UpdateProgress /\ CountdownIdle)
  \/ (Frame /\ CountdownIdle)
  \/ (StaleFrame /\ CountdownIdle)
  \/ (BurstTimeout /\ CountdownIdle)
  \/ (Dispose /\ CountdownIdle)

BurstSpec == Init /\ [][BurstNext]_vars

\* updateProgress as the running countdown calls it: the phase delivered is
\* never earlier in the order of the phases than the stored one
UpdateProgressForward ==
  \E in \in ProgressInputs :
    /\ PhaseRank(in[2]) >= PhaseRank(phase)
    /\ updateProgress(in[1], in[2])

\* the scene under phases that never move backward
ForwardNext ==
  \/ (ClockAdvance /\ CountdownIdle)
  \/ (UpdateProgressForward /\ CountdownIdle)
  \/ (Frame /\ CountdownIdle)
  \/ (StaleFrame /\ CountdownIdle)
  \/ (Timeout /\ CountdownIdle)
  \/ (Dispose /\ CountdownIdle)

ForwardSpec == Init /\ [][ForwardNext]_vars

\* requestAnimationFrame keeps delivering the requested frame
FairSpec == Spec /\ WF_vars(Frame /\ CountdownIdle)

\* the countdown hook on its own
CountdownSpecInit ==
  SceneInit /\ CountdownInit /\ ClockInit /\ EffectInit /\ mathCall = NoCall
CountdownNext == Sample \/ ChangeTarget \/ Unmount
CountdownSpec == CountdownSpecInit /\ [][CountdownNext]_vars

\* the burst system on its own, with the buffers of its layers
LayerSpecInit ==
  /\ SceneInit
  /\ ClockInit
  /\ mathCall = NoCall
  /\ targetDate = 2 * TotalDuration
  /\ wallClock = 0
  /\ remaining = targetDate - wallClock
  /\ state = calculateState(targetDate, wallClock)
  /\ samples = 0
  /\ mounted = TRUE
  /\ effectRuns = 1
  /\ intervals = EffectSetup({}, 1, targetDate)
  /\ shakeIntensity = FZero
  /\ burstBuffers \in {InitialBuffers(particles) : particles \in ParticleSets}
LayerNext ==
  \/ (LayerClockAdvance /\ LayerIdle)
  \/ (BurstTriggerCall /\ LayerIdle)
  \/ (BurstUpdateCall /\ LayerIdle)
LayerSpec == LayerSpecInit /\ [][LayerNext]_vars

\* the camera shake on its own: the triggers that set it, the ticks that
\* smooth and decay it
ShakeNext ==
  \/ (ShakeTrigger /\ ShakeIdle)
  \/ (ShakeTick /\ ShakeIdle)
ShakeSpec == Init /\ [][ShakeNext]_vars

\* the clock reads of the ticks on their own
TickSpec == Init /\ [][AnimateClockReads]_vars

\* the numeric functions on their own: each call from its arguments to its
\* result
MathSpecInit ==
  /\ SceneInit
  /\ ClockInit
  /\ EffectInit
  /\ mathCall \in EaseCalls \cup LerpCalls \cup TickCalls
  /\ targetDate = 2 * TotalDuration
  /\ wallClock = 0
  /\ remaining = targetDate - wallClock
  /\ state = calculateState(targetDate, wallClock)
  /\ samples = 0
  /\ mounted = TRUE
  /\ effectRuns = 1
  /\ intervals = EffectSetup({}, 1, targetDate)
MathNext ==
  \/ (EaseReturn /\ UNCHANGED << sceneVars, countdownVars, clockVars, effectVars >>)
  \/ (SmoothLerpReturn /\ UNCHANGED << sceneVars, countdownVars, clockVars, effectVars >>)
  \/ (AnimateIntensity /\ UNCHANGED << sceneVars, countdownVars, clockVars, effectVars >>)
MathSpec == MathSpecInit /\ [][MathNext]_vars

\* ------------------------------------------------------------------ claims
\* a step of this behaviour is a call updateProgress(in[1], in[2])
ClimaxFired == calls'.triggerClimax = calls.triggerClimax + 1
ClimaxNotFired == calls'.triggerClimax = calls.triggerClimax
CelebrationFired == calls'.triggerCelebration = calls.triggerCelebration + 1
CelebrationNotFired == calls'.triggerCelebration = calls.triggerCelebration

\* the effects a trigger starts: the burst, the rings, the deferred spawns
EffectsUnchanged ==
  UNCHANGED << climaxStartTime, celebrationStartTime, burstLayers, shockwaves,
               fireworks, timeouts, sceneChildren, disposedObjects >>

\* C1: in every updateProgress call, triggerClimax fires exactly when the
\* call's phase is climax and the stored phase is not, and triggerCelebration
\* fires exactly when the call's phase is celebration and the stored phase is
\* not; a call that keeps the phase fires neither.
C1_TriggerOnEntryOnly ==
  [][\A in \in ProgressInputs :
       updateProgress(in[1], in[2]) =>
         /\ IF in[2] = "climax" /\ phase # "climax"
              THEN ClimaxFired /\ Len(shockwaves') = Len(shockwaves) + Len(ClimaxRings)
              ELSE ClimaxNotFired /\ shockwaves' = shockwaves
         /\ IF in[2] = "celebration" /\ phase # "celebration"
              THEN CelebrationFired /\ Len(timeouts') = Len(timeouts) + InitialBurstCount
              ELSE CelebrationNotFired /\ timeouts' = timeouts
         /\ in[2] = phase => EffectsUnchanged]_vars

\* both triggers have fired, and the phase was then delivered again
C1_Witness ==
  /\ calls.triggerClimax = 1
  /\ calls.triggerCelebration = 1
  /\ phase = "celebration"
  /\ Len(timeouts) = InitialBurstCount

\* C2: once the scene is disposed no frame request is outstanding, and a frame
\* callback that runs on a disposed scene requests no frame, updates no
\* subsystem and spawns nothing.
C2_NoFrameWorkAfterDispose ==
  /\ [](isDisposed => rafQueue = {})
  /\ [][(isDisposed /\ (Frame \/ StaleFrame)) =>
          /\ lastFrame' = "skipped"
          /\ UNCHANGED << rafQueue, animationFrameId, burstLayers, shockwaves, fireworks,
                          sceneChildren, disposedObjects, nextFirework,
                          lastFireworkTime >>]_vars

\* a frame callback has run on the disposed scene
C2_Witness == isDisposed /\ lastFrame = "skipped" /\ rafQueue = {}

\* C3: a deferred initial-burst callback that runs on a disposed scene spawns
\* no firework and touches no subsystem resource.
C3_DeferredSpawnSkipsAfterDispose ==
  [][(isDisposed /\ Timeout) =>
       UNCHANGED << fireworks, nextFirework, sceneChildren, disposedObjects,
                    shockwaves, burstLayers, lastFireworkTime >>]_vars

\* one callback spawned before dispose(), the other four ran after it
C3_Witness ==
  /\ isDisposed
  /\ calls.triggerCelebration = 1
  /\ timeouts = << >>
  /\ nextFirework = 1
  /\ lastFireworkTime = 0

SubsystemResources == {o \in sceneChildren : o.kind \in SubsystemKinds}

\* C4: on a disposed scene no subsystem render resource is attached to the
\* scene, whatever operation follows dispose().
C4_NoResourceAfterDispose == isDisposed => SubsystemResources = {}

\* what dispose() leaves behind
TornDown ==
  /\ isDisposed
  /\ burstLayers = << >>
  /\ shockwaves = << >>
  /\ fireworks = << >>
  /\ sceneChildren = {}
  /\ ~resizeListener
  /\ ~canvasAttached
  /\ rafQueue = {}

\* C5: every dispose() ends in the torn-down state, so a second dispose()
\* leaves the scene as the first one left it; called right after the first,
\* it changes nothing at all.
C5_DisposeIdempotent ==
  [][Dispose =>
       /\ TornDown'
       /\ (isDisposed /\ TornDown) =>
            UNCHANGED << isDisposed, burstLayers, shockwaves, fireworks, sceneChildren,
                         disposedObjects, resizeListener, canvasAttached, rafQueue,
                         animationFrameId, timeouts >>]_vars

C5_Witness == calls.dispose = 2 /\ TornDown

\* a step is a call of updateProgress that moves the phase backward
BackwardMove(in) ==
  updateProgress(in[1], in[2]) /\ PhaseRank(in[2]) < PhaseRank(phase)

\* C6 as stated: a backward move of the phase fires no trigger and starts no
\* effect.
C6_BackwardFiresNothing ==
  [][\A in \in ProgressInputs :
       BackwardMove(in) => ClimaxNotFired /\ CelebrationNotFired /\ EffectsUnchanged]_vars

\* C6 amended: a backward move never fires triggerCelebration; it fires
\* triggerClimax exactly when it enters climax (from celebration), and a
\* backward move to any other phase starts no effect.
C6_BackwardFiresOnlyClimaxEntry ==
  [][\A in \in ProgressInputs :
       BackwardMove(in) =>
         /\ CelebrationNotFired
         /\ timeouts' = timeouts
         /\ IF in[2] = "climax"
              THEN phase = "celebration" /\ ClimaxFired
              ELSE ClimaxNotFired /\ EffectsUnchanged]_vars

\* the phase has moved back from climax or celebration to final
C6_Witness ==
  /\ phase = "final"
  /\ calls.triggerClimax + calls.triggerCelebration >= 1


\* the transient effect instances created so far, and the active ones
CreatedTransients ==
  {RingObj(i) : i \in 1..(calls.triggerClimax * Len(ClimaxRings))}
    \cup {FireworkObj(i) : i \in 1..nextFirework}
ActiveTransients ==
  {RingObj(shockwaves[k].id) : k \in 1..Len(shockwaves)}
    \cup {FireworkObj(fireworks[k].id) : k \in 1..Len(fireworks)}

\* an active instance whose animation is over at the current scene time
RingOverdue == \E k \in 1..Len(shockwaves) : now - shockwaves[k].startTime > shockwaves[k].duration
FireworkOverdue == \E k \in 1..Len(fireworks) : now - fireworks[k].startTime >= fireworks[k].lifetime

\* an instance that left its active list is detached and disposed
NoTransientLeak ==
  \A o \in CreatedTransients \ ActiveTransients :
    o \notin sceneChildren /\ o \in disposedObjects

\* C7: no ring or firework leaks.  An instance that is no longer active is off
\* the scene and disposed; on a scene that is not disposed, once scene time
\* has passed the end of an active instance, the running ticks remove it; and
\* dispose() empties both active lists.
C7_NoTransientLeak ==
  /\ []NoTransientLeak
  /\ ((~isDisposed /\ (RingOverdue \/ FireworkOverdue)) ~> ~(RingOverdue \/ FireworkOverdue))
  /\ [][Dispose => (shockwaves' = << >> /\ fireworks' = << >>)]_vars

\* a ring and a firework have expired in update() on a live scene
C7_Witness ==
  /\ ~isDisposed
  /\ RingObj(1) \in disposedObjects
  /\ FireworkObj(1) \in disposedObjects
  /\ RingObj(1) \notin sceneChildren

\* C8: update() visits the instances of the active lists only, and no instance
\* of an active list has been disposed, neither by expiry nor by dispose().
C8_DisposedNeverUpdated == ActiveTransients \cap disposedObjects = {}

\* some instance has been disposed by expiry while others are still updated
C8_Witness ==
  /\ ~isDisposed
  /\ \E o \in disposedObjects : o.kind \in {"ring", "firework"}
  /\ Len(shockwaves) > 0
  /\ Len(fireworks) > 0

\* the classification C9 states, by interval
PhaseByInterval(r) ==
  IF r <= -6000 THEN "celebration"
  ELSE IF -6000 < r /\ r <= 0 THEN "climax"
  ELSE IF 0 < r /\ r <= 10000 THEN "final"
  ELSE IF 10000 < r /\ r <= 60000 THEN "intense"
  ELSE IF 60000 < r /\ r <= 600000 THEN "building"
  ELSE IF 600000 < r /\ r <= 3600000 THEN "calm"
  ELSE "dormant"

C10_PastConsistent ==
  /\ state.isPast <=> state.timeRemaining <= 0
  /\ state.isPast <=> state.phase \in {"climax", "celebration"}
  /\ state.isPast <=> state.progress = TotalDuration
  /\ state.isPast =>
       state.display = [hours |-> 0, minutes |-> 0, seconds |-> 0, milliseconds |-> 0]

\* a sampling tick has found the target passed by a fraction of a second
C10_Witness == samples > 0 /\ state.isPast /\ state.timeRemaining = -51

\* C11: progress lies in [0, 1]; it is 0 from one hour before the target on,
\* 1 once the target is reached, and 1 - remaining/3,600,000 in between
\* (progress is kept as a multiple of 1/3,600,000).
C11_ProgressClamped ==
  /\ state.progress \in 0..3600000
  /\ state.timeRemaining >= 3600000 => state.progress = 0
  /\ state.timeRemaining <= 0 => state.progress = 3600000
  /\ (0 < state.timeRemaining /\ state.timeRemaining < 3600000)
       => state.progress = 3600000 - state.timeRemaining
  /\ \A r \in RemainingSamples :
       r <= state.timeRemaining => calculateState(r, 0).progress >= state.progress

\* a sampling tick has computed the progress of a target more than an hour away
C11_Witness ==
  samples > 0 /\ state.timeRemaining > 3600000 /\ state.progress = 0

\* C12: for remaining >= 0 the display is the mixed-radix decomposition of
\* remaining into hours, minutes, seconds and milliseconds; for remaining < 0
\* the four fields are 0.
C12_DisplayDecomposition ==
  LET d == state.display
      r == state.timeRemaining
  IN /\ r >= 0 =>
          /\ d.hours >= 0
          /\ d.minutes \in 0..59
          /\ d.seconds \in 0..59
          /\ d.milliseconds \in 0..999
          /\ d.hours * 3600000 + d.minutes * 60000 + d.seconds * 1000 + d.milliseconds = r
     /\ r < 0 => d = [hours |-> 0, minutes |-> 0, seconds |-> 0, milliseconds |-> 0]

\* a sampling tick has formatted 1 h 1 min 1.450 s
C12_Witness ==
  /\ samples > 0
  /\ state.timeRemaining = 3661450
  /\ state.display = [hours |-> 1, minutes |-> 1, seconds |-> 1, milliseconds |-> 450]

\* C17: while the hook is mounted the browser holds exactly one interval, the
\* one of the last effect run, and it samples the current target; after the
\* unmount it holds none; every tick stores calculateState of the current
\* target, so the first tick after a target change shows the new target.
C17_OneInterval ==
  /\ [](mounted => intervals = {[id |-> effectRuns, targetDate |-> targetDate]})
  /\ [](~mounted => intervals = {})
  /\ [][samples' # samples =>
          /\ state'.timeRemaining = targetDate' - wallClock'
          /\ state' = calculateState(targetDate', wallClock')]_vars

\* after a target change, a tick has sampled the new target
C17_Witness ==
  /\ mounted
  /\ effectRuns = 2
  /\ samples = 2
  /\ targetDate = 30000
  /\ state.timeRemaining = 30000 - wallClock
  /\ wallClock = 100

\* C18: every firing of triggerClimax at scene time T appends exactly five
\* rings, with start times T, T+0.15, T+0.3, T+0.45, T+0.6 s, max radii 80,
\* 70, 60, 50, 40 and five pairwise distinct colors.
C18_FiveDistinctRings ==
  [][ClimaxFired =>
       LET n == Len(shockwaves)
           T == climaxStartTime'
       IN /\ Len(shockwaves') = n + 5
          /\ SubSeq(shockwaves', 1, n) = shockwaves
          /\ \A k \in 1..5 :
               /\ shockwaves'[n + k].startTime = T + 3 * (k - 1)
               /\ shockwaves'[n + k].maxRadius = 90 - 10 * k
          /\ \A j, k \in 1..5 :
               j # k => shockwaves'[n + j].color # shockwaves'[n + k].color]_vars

\* the number of pending deferred callbacks due at time d
PendingAt(queue, d) == Cardinality({k \in 1..Len(queue) : queue[k] = d})

\* a step in which a deferred callback of the initial burst has run
DeferredCallbackRan == timeouts # << >> /\ timeouts' = Tail(timeouts)

\* C19: every firing of triggerCelebration records the celebration start
\* time, sets targetShakeIntensity to 0.5 and schedules exactly five deferred
\* spawns, due 0, 200, 400, 600 and 800 ms later; each of them, run on a scene
\* that is not disposed, adds exactly one firework, so that a scene never
\* disposed has created at least five fireworks per celebration entry once
\* no callback is pending.
C19_CelebrationBurst ==
  /\ [][CelebrationFired =>
          /\ celebrationStartTime' = now
          /\ targetShakeIntensity' = [level |-> 500, decays |-> 0]
          /\ Len(timeouts') = Len(timeouts) + 5
          /\ \A d \in 0..(MaxTime + 16) :
               PendingAt(timeouts', d) =
                 PendingAt(timeouts, d)
                   + (IF d \in {now, now + 4, now + 8, now + 12, now + 16} THEN 1 ELSE 0)]_vars
  /\ [][(DeferredCallbackRan /\ ~isDisposed) =>
          /\ Len(fireworks') = Len(fireworks) + 1
          /\ nextFirework' = nextFirework + 1
          /\ fireworks'[Len(fireworks')].startTime = now
          /\ FireworkObj(nextFirework') \in sceneChildren' \ sceneChildren]_vars
  /\ []((~isDisposed /\ timeouts = << >>) => nextFirework >= 5 * calls.triggerCelebration)

\* the five deferred callbacks of one celebration entry have each spawned
C19_Witness ==
  /\ ~isDisposed
  /\ calls.triggerCelebration = 1
  /\ timeouts = << >>
  /\ nextFirework = 5
  /\ Len(fireworks) = 5

\* a step in which a tick has spawned a firework
TickSpawned == nextFirework' # nextFirework /\ ~DeferredCallbackRan

\* C20: a tick spawns at most one firework; it spawns only while the stored
\* phase is celebration and more than 0.3 s of scene time after the previous
\* tick-driven spawn; the spawn sets lastFireworkTime to the tick's time, and
\* nothing else changes lastFireworkTime.
C20_TickSpawnRateLimited ==
  /\ [][nextFirework' \in {nextFirework, nextFirework + 1}]_vars
  /\ [][TickSpawned =>
          /\ phase = "celebration"
          /\ now - lastFireworkTime > 6
          /\ lastFireworkTime' = now
          /\ Len(fireworks') <= Len(fireworks) + 1
          /\ fireworks'[Len(fireworks')].startTime = now]_vars
  /\ [][lastFireworkTime' # lastFireworkTime => TickSpawned]_vars

\* a tick at 3.0 s has spawned a firework, 1.5 s after the previous tick-driven spawn
C20_Witness ==
  /\ phase = "celebration"
  /\ lastFireworkTime = 60
  /\ nextFirework >= 2
  /\ \E k \in 1..Len(fireworks) : fireworks[k].startTime = 30
  /\ fireworks[Len(fireworks)].startTime = 60
  /\ timeouts # << >>
  /\ Len(timeouts) = 5

\* C13: every tick uses one delta time, at most 0.1 s, for all its smoothing
\* steps and subsystem updates, the field-of-view smoothing included.
C13_SingleClampedDelta ==
  ticks > 0 => (tickDt <= 100 /\ fovDt = tickDt)

\* C14: the dramaticIntensity computed in a tick lies in [0,1] for every
\* progress value updateProgress delivers, the debug sentinel 1.001 included,
\* and so does the star-field opacity 0.7 + 0.3 * dramaticIntensity.
C14_IntensityInUnitRange ==
  (mathCall.fn = "animate" /\ mathCall.done) =>
    /\ FLe(FZero, mathCall.dramaticIntensity)
    /\ FLe(mathCall.dramaticIntensity, FOne)
    /\ FLe(FZero, mathCall.opacity)
    /\ FLe(mathCall.opacity, FOne)

\* C15: every easing function returns exactly 0 at t = 0 and exactly 1 at
\* t = 1.
C15_BoundaryExact ==
  (mathCall.fn \in EasingNames /\ mathCall.done) =>
    /\ mathCall.t = FZero => mathCall.value = FZero
    /\ mathCall.t = FOne => mathCall.value = FOne

\* C16: for speed in [0,1] and dt >= 0, smoothLerp(current, target, speed, dt)
\* lies in the closed interval between current and target, and equals current
\* when current = target and when speed = 0.
C16_NoOvershoot ==
  (mathCall.fn = "smoothLerp" /\ mathCall.done) =>
    /\ FLe(FMin(mathCall.current, mathCall.target), mathCall.value)
    /\ FLe(mathCall.value, FMax(mathCall.current, mathCall.target))
    /\ mathCall.current = mathCall.target => mathCall.value = mathCall.current
    /\ mathCall.speed = FZero => mathCall.value = mathCall.current

\* a step in which a tick has run on a scene that is not disposed: the only
\* steps that leave the scene time, the stored progress and phase, the
\* pending deferred callbacks and the call counts as they are
LiveTick == ~isDisposed /\ UNCHANGED << now, progress, phase, timeouts, calls >>

\* C21: ShockwaveSystem.update(time) leaves in the active list exactly the
\* rings that were active with time - startTime <= duration, in their former
\* order; every ring past its duration is off the scene and disposed, however
\* many expire in the one update; a kept ring is hidden when its start time
\* is still ahead and visible otherwise.
C21_ShockwaveUpdate ==
  [][LiveTick =>
       LET kept == SelectSeq(shockwaves, LAMBDA r : now - r.startTime <= r.duration)
       IN /\ Len(shockwaves') = Len(kept)
          /\ \A k \in 1..Len(kept) :
               /\ shockwaves'[k] = [kept[k] EXCEPT !.visible = shockwaves'[k].visible]
               /\ shockwaves'[k].visible = (now >= kept[k].startTime)
          /\ \A k \in 1..Len(shockwaves) :
               now - shockwaves[k].startTime > shockwaves[k].duration =>
                 /\ RingObj(shockwaves[k].id) \notin sceneChildren'
                 /\ RingObj(shockwaves[k].id) \in disposedObjects']_vars

\* one update at 3.0 s has removed the five rings of the first climax and
\* kept the five of the second, four of them still ahead of their start
C21_Witness ==
  /\ ~isDisposed
  /\ now = 60
  /\ Len(shockwaves) = 5
  /\ \A k \in 1..5 : shockwaves[k].id = 5 + k /\ RingObj(k) \in disposedObjects
  /\ shockwaves[1].visible
  /\ \A k \in 2..5 : ~shockwaves[k].visible

\* C22: FireworkSystem.update(time) takes every active firework whose
\* normalized time (time - startTime) / lifetime exceeds 1 off the active
\* list and off the scene and disposes it, however many expire in the one
\* call; it removes no firework whose normalized time is below 1; and the
\* fireworks that survive keep their relative order.
C22_FireworkUpdate ==
  [][LiveTick =>
       LET Survives(f) == \E k \in 1..Len(fireworks') : fireworks'[k] = f
       IN /\ \A k \in 1..Len(fireworks) :
               now - fireworks[k].startTime > fireworks[k].lifetime =>
                 /\ ~Survives(fireworks[k])
                 /\ FireworkObj(fireworks[k].id) \notin sceneChildren'
                 /\ FireworkObj(fireworks[k].id) \in disposedObjects'
          /\ \A k \in 1..Len(fireworks) :
               now - fireworks[k].startTime < fireworks[k].lifetime =>
                 /\ Survives(fireworks[k])
                 /\ FireworkObj(fireworks[k].id) \in sceneChildren'
                 /\ FireworkObj(fireworks[k].id) \notin disposedObjects'
          /\ SelectSeq(fireworks', LAMBDA f : f.id <= nextFirework)
               = SelectSeq(fireworks, Survives)]_vars

\* one update at 3.0 s has removed the two fireworks launched at 0 s and kept
\* the later ones in their order
C22_Witness ==
  /\ ~isDisposed
  /\ now = 60
  /\ {FireworkObj(1), FireworkObj(2)} \subseteq disposedObjects
  /\ Len(fireworks) >= 3
  /\ \A k \in 1..3 : fireworks[k].id = 2 + k /\ fireworks[k].startTime = 30

\* C26: while the stored phase is climax, climaxStartTime is not null, and
\* while the stored phase is celebration, celebrationStartTime is not null.
C26_StartTimeRecorded ==
  /\ phase = "climax" => climaxStartTime # Null
  /\ phase = "celebration" => celebrationStartTime # Null

\* celebration was entered at 0 s without a climax before it, and climax at 1.5 s
C26_Witness ==
  /\ phase = "climax"
  /\ climaxStartTime = 30
  /\ celebrationStartTime = 0
  /\ calls.triggerClimax = 1
  /\ calls.triggerCelebration = 1

\* C27: every firework spawn, by a tick or by a deferred callback of the
\* initial burst, happens while the stored phase is celebration.
C27_SpawnOnlyInCelebration ==
  [][nextFirework' # nextFirework => phase = "celebration"]_vars

\* C28: a burst layer is hidden before its own activation: a layer that was
\* never triggered, or whose staggered start time is later than the current
\* scene time, is not visible.
C28_HiddenBeforeActivation ==
  \A i \in 1..Len(burstLayers) :
    (burstLayers[i].startTime = Null \/ burstLayers[i].startTime > now)
      => ~burstLayers[i].visible

\* C29: at most one animation-frame request is pending at any time; a tick
\* of a scene that is not disposed leaves exactly one request pending, the
\* one it has just made; no other operation makes a request; and on a
\* disposed scene no request is pending.
C29_OneFrameRequest ==
  /\ [](Cardinality(rafQueue) <= 1)
  /\ [](isDisposed => rafQueue = {})
  /\ [][LiveTick => rafQueue' = {animationFrameId'}]_vars
  /\ [][(~LiveTick) => rafQueue' \subseteq rafQueue]_vars

\* ticks have run up to 1.5 s (one of them spawned a firework) and one
\* request is pending
C29_Witness ==
  /\ ~isDisposed
  /\ lastFireworkTime = 30
  /\ lastFrame = "ran"
  /\ rafQueue = {animationFrameId}

\* C30: on a fresh scene whose updateProgress calls never deliver a phase
\* earlier than the stored one, and that is given climax before celebration,
\* triggerClimax fires exactly once and triggerCelebration exactly once, the
\* climax firing first: while the stored phase is climax only triggerClimax
\* has fired, once; the call that moves it from climax to celebration is
\* the one firing of triggerCelebration; and neither fires again.
C30_ForwardFiresOnce ==
  /\ [](calls.triggerClimax <= 1 /\ calls.triggerCelebration <= 1)
  /\ [](phase = "climax" => (calls.triggerClimax = 1 /\ calls.triggerCelebration = 0))
  /\ [][(phase = "climax" /\ phase' = "celebration") =>
          /\ CelebrationFired /\ ClimaxNotFired
          /\ calls'.triggerClimax = 1 /\ calls'.triggerCelebration = 1
          /\ climaxStartTime' <= celebrationStartTime']_vars
  /\ [][(phase = "celebration" /\ calls.triggerClimax = 1) =>
          (ClimaxNotFired /\ CelebrationNotFired)]_vars

\* climax was entered at 0 s and celebration at 1.5 s, and the scene has run
\* on to 3.0 s: each trigger has fired once
C30_Witness ==
  /\ phase = "celebration"
  /\ progress = 1001
  /\ calls.triggerClimax = 1
  /\ calls.triggerCelebration = 1
  /\ climaxStartTime = 0
  /\ celebrationStartTime = 30
  /\ now = 60

\* C23: BurstSystem.trigger(T) sets the start time of layer i (0..4) to
\* T + i * 0.1 s, puts every particle of every layer at the origin and every
\* layer's opacity at 1.0, and leaves the velocities, the lifetimes and the
\* number of particles of every layer as they were.
C23_TriggerResetsLayers ==
  [][BurstTriggerCall =>
       \A i \in 1..BurstLayerCount :
         /\ burstLayers'[i].startTime = now + 2 * (i - 1)
         /\ Len(burstBuffers'[i].position) = Len(burstBuffers[i].position)
         /\ \A j \in 1..Len(burstBuffers'[i].position) :
              burstBuffers'[i].position[j] = << 0, 0, 0 >>
         /\ burstBuffers'[i].opacity = 10000
         /\ burstBuffers'[i].velocities = burstBuffers[i].velocities
         /\ burstBuffers'[i].lifetimes = burstBuffers[i].lifetimes]_vars

\* the burst has been triggered at 5.2 s: every layer has its staggered start
\* time, its particles at the origin and full opacity
C23_Witness ==
  /\ now = 104
  /\ \A i \in 1..BurstLayerCount :
       /\ burstLayers[i].startTime = 104 + 2 * (i - 1)
       /\ burstLayers[i].visible
       /\ burstBuffers[i].opacity = 10000
       /\ burstBuffers[i].position = << << 0, 0, 0 >>, << 0, 0, 0 >> >>
       /\ burstBuffers[i].lifetimes = << 50, 108 >>

\* C24: once a triggered burst layer is invisible, BurstSystem.update changes
\* nothing of it, neither its position buffer nor its opacity nor its
\* visibility, until the next trigger().
C24_HiddenLayerUntouched ==
  [][BurstUpdateCall =>
       \A i \in 1..BurstLayerCount :
         (burstLayers[i].startTime # Null /\ ~burstLayers[i].visible) =>
           (burstLayers'[i] = burstLayers[i] /\ burstBuffers'[i] = burstBuffers[i])]_vars

\* the number of trigger firings so far
TriggersFired == calls.triggerClimax + calls.triggerCelebration

====
